---- MODULE Spec2Model ----
(***************************************************************************)
(* ProductManager (src/product/manager/product.js): validation of a review *)
(* request, lookup of a product with its ratings, and the add-rating       *)
(* pipeline validate -> create -> findById -> publish.                     *)
(*                                                                         *)
(* Each call of a ProductManager method is a process c \in Calls whose pc  *)
(* is the await it is suspended at.  The collaborators (ProductEntity,     *)
(* ProductRatingEntity, realtimeQueue, the review schema) are modelled     *)
(* from their documented contracts; each of their calls may fail.          *)
(***************************************************************************)
EXTENDS Integers, Sequences, FiniteSets, TLC

\* Number of ProductManager method calls in flight (one request each).
NumCalls == 2
Calls == 1..NumCalls

\* Allowed range of a rating in the review schema.
RatingMin == 1
RatingMax == 5

VARIABLES
  ratingsDb,        \* rows of the product rating table, row i has id i
  queue,            \* messages saved on the realtime queue
  pc,               \* per call: the await the call is suspended at
  op,               \* per call: the method invoked
  args,             \* per call: the arguments of the call
  createdRatingId,  \* per call: local of addRating
  createdRating,    \* per call: local of addRating
  product,          \* per call: local of findById
  outcome,          \* per call: the promise returned to the caller
  trace,            \* per call: the collaborator calls made, in order
  vdata,            \* argument of a direct validateAddReviewRequest call
  vresult           \* the promise that call returned

vars == <<ratingsDb, queue, pc, op, args, createdRatingId, createdRating,
          product, outcome, trace, vdata, vresult>>

-----------------------------------------------------------------------------
(* JavaScript values that reach the validator.                             *)

Undefined == [t |-> "undefined", n |-> 0, s |-> ""]
Num(n) == [t |-> "number", n |-> n, s |-> ""]
Str(s) == [t |-> "string", n |-> 0, s |-> s]

\* Strings that Joi's number() converts to a number (convert is on by default).
NumericStrings == ("4" :> 4) @@ ("9" :> 9)

-----------------------------------------------------------------------------
(* Errors and promises.                                                    *)

NoError == [name |-> "none", badRequest |-> FALSE, details |-> <<>>]
Error(name) == [name |-> name, badRequest |-> FALSE, details |-> <<>>]

Pending == [state |-> "pending", value |-> Undefined, error |-> NoError]
Resolved(v) == [state |-> "resolved", value |-> v, error |-> NoError]
Rejected(e) == [state |-> "rejected", value |-> Undefined, error |-> e]

-----------------------------------------------------------------------------
(* The review schema and Joi.validate.                                     *)

SchemaKeys == <<"product_id", "rating", "review">>

\* number(): the numeric reading of a value, after conversion.
IsNumber(v) == \/ v.t = "number"
               \/ v.t = "string" /\ v.s \in DOMAIN NumericStrings
ToNumber(v) == IF v.t = "string" THEN NumericStrings[v.s] ELSE v.n

\* The violation of one key of the schema, "" when the key is valid.
KeyViolation(key, v) ==
  IF v.t = "undefined" THEN "any.required"
  ELSE IF key = "review"
    THEN IF v.t # "string" THEN "string.base"
         ELSE IF v.s = "" THEN "any.empty" ELSE ""
  ELSE IF ~IsNumber(v) THEN "number.base"
  ELSE IF key = "rating" /\ ToNumber(v) < RatingMin THEN "number.min"
  ELSE IF key = "rating" /\ ToNumber(v) > RatingMax THEN "number.max"
  ELSE ""

\* The value of one key after validation (numeric strings become numbers).
KeyValue(key, v) ==
  IF key # "review" /\ IsNumber(v) THEN Num(ToNumber(v)) ELSE v

RECURSIVE CollectErrors(_, _)
CollectErrors(data, i) ==
  IF i > Len(SchemaKeys) THEN <<>>
  ELSE LET key == SchemaKeys[i]
           viol == KeyViolation(key, data[key])
       IN (IF viol = "" THEN <<>> ELSE <<[path |-> key, type |-> viol]>>)
          \o CollectErrors(data, i + 1)

\* Joi.validate(data, addReviewRequestSchema, {abortEarly: abortEarly})
JoiValidate(data, abortEarly) ==
  LET all == CollectErrors(data, 1)
      details == IF abortEarly /\ all # <<>> THEN <<Head(all)>> ELSE all
  IN [error |-> IF details = <<>> THEN NoError
                ELSE [name |-> "ValidationError", badRequest |-> FALSE,
                      details |-> details],
      value |-> [key \in DOMAIN data |-> KeyValue(key, data[key])]]

\* Variant: validation stops at the first violation (abortEarly left on).
validateAddReviewRequestAbortEarly(data) ==
  LET r == JoiValidate(data, TRUE)
  IN IF r.error # NoError
       THEN Rejected([r.error EXCEPT !.badRequest = TRUE])
       ELSE Resolved(r.value)

\* ProductManager.validateAddReviewRequest
validateAddReviewRequest(data) ==
  LET r == JoiValidate(data, FALSE)
  IN IF r.error # NoError
       THEN Rejected([r.error EXCEPT !.badRequest = TRUE])
       ELSE Resolved(r.value)

-----------------------------------------------------------------------------
(* Inputs.                                                                 *)

ProductIdValues == {Undefined, Num(1), Num(2), Str("4"), Str("abc")}
RatingValues == {Undefined, Num(0), Num(1), Num(5), Num(6), Str("9"), Str("abc")}
ReviewValues == {Undefined, Num(7), Str(""), Str("Great product")}

ReviewRequests ==
  [product_id : ProductIdValues, rating : RatingValues, review : ReviewValues]


\* Arguments of addRating: two valid requests and two the schema rejects.
AddRatingInputs ==
  { <<Num(1), Num(5), Str("Great product")>>,
    <<Num(2), Num(4), Str("ok")>>,
    <<Num(1), Num(6), Str("Great product")>>,
    <<Undefined, Num(5), Undefined>> }

\* Arguments of findById: products 1 and 2 exist, product 3 does not.
FindByIdInputs == {1, 2, 3}

-----------------------------------------------------------------------------
(* The persistence layer and the queue, by their contracts.                *)

Products == <<[id |-> 1, name |-> "p1"], [id |-> 2, name |-> "p2"]>>

NoProduct == [id |-> 0, name |-> ""]
NoRating == [id |-> 0, product_id |-> Undefined, rating |-> Undefined,
             review |-> Undefined]

\* Rows of the rating table before any call.
SeedRatings ==
  << [id |-> 1, product_id |-> Num(1), rating |-> Num(3), review |-> Str("fine")],
     [id |-> 2, product_id |-> Num(1), rating |-> Num(2), review |-> Str("meh")] >>

\* ProductEntity.findById(id): the product, not-found, or a read failure.
ProductEntityFindById(id) ==
  IF \E i \in DOMAIN Products : Products[i].id = id
    THEN { [ok |-> TRUE,
            ret |-> Products[CHOOSE i \in DOMAIN Products : Products[i].id = id]],
           [ok |-> FALSE, ret |-> Error("PersistenceError")] }
    ELSE { [ok |-> FALSE, ret |-> Error("NotFoundError")] }

\* ProductRatingEntity.getAllByProductId(id): the rows of the product, in
\* table order, or a read failure.
RatingEntityGetAllByProductId(db, id) ==
  LET OfProduct(r) == r.product_id = Num(id)
  IN { [ok |-> TRUE, ret |-> SelectSeq(db, OfProduct)],
       [ok |-> FALSE, ret |-> Error("PersistenceError")] }

\* ProductRatingEntity.create(productId, rating, review): inserts a row and
\* returns its generated id, or fails and inserts nothing.
RatingEntityCreate(db, productId, rating, review) ==
  LET id == Len(db) + 1
  IN { [ok |-> TRUE, ret |-> id,
        db |-> Append(db, [id |-> id, product_id |-> productId,
                           rating |-> rating, review |-> review])],
       [ok |-> FALSE, ret |-> Error("PersistenceError"), db |-> db] }

\* ProductRatingEntity.findById(id): the row, not-found, or a read failure.
RatingEntityFindById(db, id) ==
  IF id \in DOMAIN db
    THEN { [ok |-> TRUE, ret |-> db[id]],
           [ok |-> FALSE, ret |-> Error("PersistenceError")] }
    ELSE { [ok |-> FALSE, ret |-> Error("NotFoundError")] }

\* realtimeQueue.create(event, payload).save(): the message is saved, or the
\* save fails and nothing is enqueued.
RealtimeQueueSave(q, event, payload) ==
  LET msg == [event |-> event, payload |-> payload]
  IN { [ok |-> TRUE, ret |-> msg, q |-> Append(q, msg)],
       [ok |-> FALSE, ret |-> Error("PublicationError"), q |-> q] }

\* One collaborator call as it is recorded in the trace of a manager call.
Invocation(fn, arg, res) == [fn |-> fn, arg |-> arg, ok |-> res.ok, ret |-> res.ret]

-----------------------------------------------------------------------------
(* State after construction: no call has started.                          *)

Init ==
  /\ ratingsDb = SeedRatings
  /\ queue = <<>>
  /\ pc = [c \in Calls |-> "idle"]
  /\ op = [c \in Calls |-> "none"]
  /\ args = [c \in Calls |-> <<>>]
  /\ createdRatingId = [c \in Calls |-> 0]
  /\ createdRating = [c \in Calls |-> NoRating]
  /\ product = [c \in Calls |-> NoProduct]
  /\ outcome = [c \in Calls |-> Pending]
  /\ trace = [c \in Calls |-> <<>>]
  /\ vdata = [product_id |-> Undefined, rating |-> Undefined, review |-> Undefined]
  /\ vresult = Pending

\* Variant: the catch block swallows the error and the promise resolves.
RejectWithSwallowed(c, error) ==
  /\ pc' = [pc EXCEPT ![c] = "done"]
  /\ outcome' = [outcome EXCEPT ![c] = Resolved(Undefined)]

\* The catch block of a method: the promise rejects with the error caught.
RejectWith(c, error) ==
  /\ pc' = [pc EXCEPT ![c] = "done"]
  /\ outcome' = [outcome EXCEPT ![c] = Rejected(error)]

\* A return of a method: the promise resolves with the value.
ReturnWith(c, value) ==
  /\ pc' = [pc EXCEPT ![c] = "done"]
  /\ outcome' = [outcome EXCEPT ![c] = Resolved(value)]

Record(c, inv) == trace' = [trace EXCEPT ![c] = Append(@, inv)]

-----------------------------------------------------------------------------
(* ProductManager.addRating                                                *)

\* Variant: the validation promise is not awaited, a failure goes unnoticed.
AddRatingValidateNotAwaited(c, productId, rating, review) ==
  /\ pc[c] = "idle"
  /\ LET data == [product_id |-> productId, rating |-> rating, review |-> review]
         v == validateAddReviewRequest(data)
     IN /\ op' = [op EXCEPT ![c] = "addRating"]
        /\ args' = [args EXCEPT ![c] = <<productId, rating, review>>]
        /\ Record(c, [fn |-> "validateAddReviewRequest", arg |-> data,
                      ok |-> v.state = "resolved",
                      ret |-> IF v.state = "resolved" THEN v.value ELSE v.error])
        /\ pc' = [pc EXCEPT ![c] = "create"]
        /\ UNCHANGED outcome
  /\ UNCHANGED <<ratingsDb, queue, createdRatingId, createdRating, product,
                 vdata, vresult>>

\* The call and its first await: the request is validated synchronously.
AddRatingValidate(c, productId, rating, review) ==
  /\ pc[c] = "idle"
  /\ LET data == [product_id |-> productId, rating |-> rating, review |-> review]
         v == validateAddReviewRequest(data)
     IN /\ op' = [op EXCEPT ![c] = "addRating"]
        /\ args' = [args EXCEPT ![c] = <<productId, rating, review>>]
        /\ Record(c, [fn |-> "validateAddReviewRequest", arg |-> data,
                      ok |-> v.state = "resolved",
                      ret |-> IF v.state = "resolved" THEN v.value ELSE v.error])
        /\ IF v.state = "rejected"
             THEN RejectWith(c, v.error)
             ELSE /\ pc' = [pc EXCEPT ![c] = "create"]
                  /\ UNCHANGED outcome
  /\ UNCHANGED <<ratingsDb, queue, createdRatingId, createdRating, product,
                 vdata, vresult>>

\* Variant: a failed create is caught locally and the pipeline goes on.
AddRatingCreateErrorIgnored(c) ==
  /\ pc[c] = "create"
  /\ \E res \in RatingEntityCreate(ratingsDb, args[c][1], args[c][2], args[c][3]) :
       /\ ratingsDb' = res.db
       /\ Record(c, Invocation("ProductRatingEntity.create", args[c], res))
       /\ createdRatingId' = [createdRatingId EXCEPT ![c] = IF res.ok THEN res.ret ELSE @]
       /\ pc' = [pc EXCEPT ![c] = "findById"]
       /\ UNCHANGED outcome
  /\ UNCHANGED <<queue, op, args, createdRating, product, vdata, vresult>>

\* let createdRatingId = await productRatingEntity.create(...)
AddRatingCreate(c) ==
  /\ pc[c] = "create"
  /\ \E res \in RatingEntityCreate(ratingsDb, args[c][1], args[c][2], args[c][3]) :
       /\ ratingsDb' = res.db
       /\ Record(c, Invocation("ProductRatingEntity.create", args[c], res))
       /\ IF res.ok
            THEN /\ createdRatingId' = [createdRatingId EXCEPT ![c] = res.ret]
                 /\ pc' = [pc EXCEPT ![c] = "findById"]
                 /\ UNCHANGED outcome
            ELSE /\ RejectWith(c, res.ret)
                 /\ UNCHANGED createdRatingId
  /\ UNCHANGED <<queue, op, args, createdRating, product, vdata, vresult>>

\* Variant: a failed re-fetch is caught locally and the pipeline goes on.
AddRatingFindByIdErrorIgnored(c) ==
  /\ pc[c] = "findById"
  /\ \E res \in RatingEntityFindById(ratingsDb, createdRatingId[c]) :
       /\ Record(c, Invocation("ProductRatingEntity.findById", createdRatingId[c], res))
       /\ createdRating' = [createdRating EXCEPT ![c] = IF res.ok THEN res.ret ELSE @]
       /\ pc' = [pc EXCEPT ![c] = "publish"]
       /\ UNCHANGED outcome
  /\ UNCHANGED <<ratingsDb, queue, op, args, createdRatingId, product,
                 vdata, vresult>>

\* Variant: the re-fetch uses the latest id of the table, a value shared by
\* all calls, instead of the id its own create returned.
AddRatingFindByIdLastInserted(c) ==
  /\ pc[c] = "findById"
  /\ \E res \in RatingEntityFindById(ratingsDb, Len(ratingsDb)) :
       /\ Record(c, Invocation("ProductRatingEntity.findById", Len(ratingsDb), res))
       /\ IF res.ok
            THEN /\ createdRating' = [createdRating EXCEPT ![c] = res.ret]
                 /\ pc' = [pc EXCEPT ![c] = "publish"]
                 /\ UNCHANGED outcome
            ELSE /\ RejectWith(c, res.ret)
                 /\ UNCHANGED createdRating
  /\ UNCHANGED <<ratingsDb, queue, op, args, createdRatingId, product,
                 vdata, vresult>>

\* let createdRating = await productRatingEntity.findById(createdRatingId)
AddRatingFindById(c) ==
  /\ pc[c] = "findById"
  /\ \E res \in RatingEntityFindById(ratingsDb, createdRatingId[c]) :
       /\ Record(c, Invocation("ProductRatingEntity.findById", createdRatingId[c], res))
       /\ IF res.ok
            THEN /\ createdRating' = [createdRating EXCEPT ![c] = res.ret]
                 /\ pc' = [pc EXCEPT ![c] = "publish"]
                 /\ UNCHANGED outcome
            ELSE /\ RejectWith(c, res.ret)
                 /\ UNCHANGED createdRating
  /\ UNCHANGED <<ratingsDb, queue, op, args, createdRatingId, product,
                 vdata, vresult>>

\* ProductManager.publishToRealtimeQueue(event, payload)
publishToRealtimeQueue(q, event, payload) == RealtimeQueueSave(q, event, payload)

\* Variant: the payload carries the id of the rating as the product id.
AddRatingPublishWrongProductId(c) ==
  /\ pc[c] = "publish"
  /\ LET payload == [rating |-> createdRating[c],
                     product_id |-> Num(createdRatingId[c])]
     IN \E res \in publishToRealtimeQueue(queue, "product-rating:added", payload) :
          /\ queue' = res.q
          /\ Record(c, Invocation("realtimeQueue.create",
                       [event |-> "product-rating:added", payload |-> payload], res))
          /\ IF res.ok
               THEN ReturnWith(c, createdRating[c])
               ELSE RejectWith(c, res.ret)
  /\ UNCHANGED <<ratingsDb, op, args, createdRatingId, createdRating, product,
                 vdata, vresult>>

\* Variant: a failed publication is compensated, the created row is cleared.
AddRatingPublishRollback(c) ==
  /\ pc[c] = "publish"
  /\ LET payload == [rating |-> createdRating[c], product_id |-> args[c][1]]
     IN \E res \in publishToRealtimeQueue(queue, "product-rating:added", payload) :
          /\ queue' = res.q
          /\ Record(c, Invocation("realtimeQueue.create",
                       [event |-> "product-rating:added", payload |-> payload], res))
          /\ IF res.ok
               THEN /\ ReturnWith(c, createdRating[c])
                    /\ UNCHANGED ratingsDb
               ELSE /\ RejectWith(c, res.ret)
                    /\ ratingsDb' = [ratingsDb EXCEPT ![createdRatingId[c]] = NoRating]
  /\ UNCHANGED <<op, args, createdRatingId, createdRating, product,
                 vdata, vresult>>

\* await this.publishToRealtimeQueue('product-rating:added',
\*   {rating: createdRating, product_id: productId}); return createdRating
AddRatingPublish(c) ==
  /\ pc[c] = "publish"
  /\ LET payload == [rating |-> createdRating[c], product_id |-> args[c][1]]
     IN \E res \in publishToRealtimeQueue(queue, "product-rating:added", payload) :
          /\ queue' = res.q
          /\ Record(c, Invocation("realtimeQueue.create",
                       [event |-> "product-rating:added", payload |-> payload], res))
          /\ IF res.ok
               THEN ReturnWith(c, createdRating[c])
               ELSE RejectWith(c, res.ret)
  /\ UNCHANGED <<ratingsDb, op, args, createdRatingId, createdRating, product,
                 vdata, vresult>>

-----------------------------------------------------------------------------
(* ProductManager.findById                                                 *)

FindByIdCall(c, id) ==
  /\ pc[c] = "idle"
  /\ op' = [op EXCEPT ![c] = "findById"]
  /\ args' = [args EXCEPT ![c] = <<id>>]
  /\ pc' = [pc EXCEPT ![c] = "findProduct"]
  /\ UNCHANGED <<ratingsDb, queue, createdRatingId, createdRating, product,
                 outcome, trace, vdata, vresult>>

\* Variant: a failed product fetch is caught locally and the lookup goes on.
FindByIdProductErrorIgnored(c) ==
  /\ pc[c] = "findProduct"
  /\ \E res \in ProductEntityFindById(args[c][1]) :
       /\ Record(c, Invocation("ProductEntity.findById", args[c][1], res))
       /\ product' = [product EXCEPT ![c] = IF res.ok THEN res.ret ELSE @]
       /\ pc' = [pc EXCEPT ![c] = "getRatings"]
       /\ UNCHANGED outcome
  /\ UNCHANGED <<ratingsDb, queue, op, args, createdRatingId, createdRating,
                 vdata, vresult>>

\* let product = await productEntity.findById(id)
FindByIdProduct(c) ==
  /\ pc[c] = "findProduct"
  /\ \E res \in ProductEntityFindById(args[c][1]) :
       /\ Record(c, Invocation("ProductEntity.findById", args[c][1], res))
       /\ IF res.ok
            THEN /\ product' = [product EXCEPT ![c] = res.ret]
                 /\ pc' = [pc EXCEPT ![c] = "getRatings"]
                 /\ UNCHANGED outcome
            ELSE /\ RejectWith(c, res.ret)
                 /\ UNCHANGED product
  /\ UNCHANGED <<ratingsDb, queue, op, args, createdRatingId, createdRating,
                 vdata, vresult>>

\* Variant: the result of the lookup is dropped, ratings stays empty.
FindByIdRatingsDropped(c) ==
  /\ pc[c] = "getRatings"
  /\ \E res \in RatingEntityGetAllByProductId(ratingsDb, args[c][1]) :
       /\ Record(c, Invocation("ProductRatingEntity.getAllByProductId",
                               args[c][1], res))
       /\ IF res.ok
            THEN ReturnWith(c, [ratings |-> <<>>] @@ product[c])
            ELSE RejectWith(c, res.ret)
  /\ UNCHANGED <<ratingsDb, queue, op, args, createdRatingId, createdRating,
                 product, vdata, vresult>>

\* product.ratings = await productRatingEntity.getAllByProductId(id);
\* return product
FindByIdRatings(c) ==
  /\ pc[c] = "getRatings"
  /\ \E res \in RatingEntityGetAllByProductId(ratingsDb, args[c][1]) :
       /\ Record(c, Invocation("ProductRatingEntity.getAllByProductId",
                               args[c][1], res))
       /\ IF res.ok
            THEN ReturnWith(c, [ratings |-> res.ret] @@ product[c])
            ELSE RejectWith(c, res.ret)
  /\ UNCHANGED <<ratingsDb, queue, op, args, createdRatingId, createdRating,
                 product, vdata, vresult>>

-----------------------------------------------------------------------------

Next ==
  \/ \E c \in Calls : \E a \in AddRatingInputs : AddRatingValidate(c, a[1], a[2], a[3])
  \/ \E c \in Calls : AddRatingCreate(c)
  \/ \E c \in Calls : AddRatingFindById(c)
  \/ \E c \in Calls : AddRatingPublish(c)
  \/ \E c \in Calls : \E id \in FindByIdInputs : FindByIdCall(c, id)
  \/ \E c \in Calls : FindByIdProduct(c)
  \/ \E c \in Calls : FindByIdRatings(c)

Spec == Init /\ [][Next]_vars

-----------------------------------------------------------------------------
(* A direct call of validateAddReviewRequest on every request.             *)

InitValidate ==
  /\ ratingsDb = SeedRatings
  /\ queue = <<>>
  /\ pc = [c \in Calls |-> "idle"]
  /\ op = [c \in Calls |-> "none"]
  /\ args = [c \in Calls |-> <<>>]
  /\ createdRatingId = [c \in Calls |-> 0]
  /\ createdRating = [c \in Calls |-> NoRating]
  /\ product = [c \in Calls |-> NoProduct]
  /\ outcome = [c \in Calls |-> Pending]
  /\ trace = [c \in Calls |-> <<>>]
  /\ vdata \in ReviewRequests
  /\ vresult = Pending

ValidateReviewRequest ==
  /\ vresult.state = "pending"
  /\ vresult' = validateAddReviewRequest(vdata)
  /\ UNCHANGED <<ratingsDb, queue, pc, op, args, createdRatingId,
                 createdRating, product, outcome, trace, vdata>>

NextValidate == ValidateReviewRequest

SpecValidate == InitValidate /\ [][NextValidate]_vars

-----------------------------------------------------------------------------
(* Reading the trace of a call.                                            *)

FnValidate == "validateAddReviewRequest"
FnCreate == "ProductRatingEntity.create"
FnFindRating == "ProductRatingEntity.findById"
FnPublish == "realtimeQueue.create"
FnFindProduct == "ProductEntity.findById"
FnGetRatings == "ProductRatingEntity.getAllByProductId"

\* The positions of the calls of fn in the trace of c.
CallsOf(c, fn) == {i \in DOMAIN trace[c] : trace[c][i].fn = fn}
Succeeded(c, fn) == {i \in CallsOf(c, fn) : trace[c][i].ok}
Failed(c, fn) == {i \in CallsOf(c, fn) : ~trace[c][i].ok}

RECURSIVE SumOver(_, _, _)
SumOver(n, fn, dummy) ==
  IF n = 0 THEN 0
  ELSE Cardinality(Succeeded(n, fn)) + SumOver(n - 1, fn, dummy)

\* Rows created and messages saved by all calls together.
TotalCreated == SumOver(NumCalls, FnCreate, 0)
TotalPublished == SumOver(NumCalls, FnPublish, 0)

Persisted(r) == \E id \in DOMAIN ratingsDb : id = r.id /\ ratingsDb[id] = r

-----------------------------------------------------------------------------
\* C1: an event is published by addRating only after the create of the
\* rating succeeded and the re-fetch by the created id succeeded; the rating
\* of every published event was created and re-read, and is persisted.
C1_PublishOnlyAfterCreateAndRefetch ==
  /\ \A c \in Calls : \A k \in CallsOf(c, FnPublish) :
       \E i, j \in DOMAIN trace[c] :
         /\ i < j /\ j < k
         /\ i \in Succeeded(c, FnCreate)
         /\ j \in Succeeded(c, FnFindRating)
         /\ trace[c][j].arg = trace[c][i].ret
         /\ trace[c][k].arg.payload.rating = trace[c][j].ret
  /\ \A m \in DOMAIN queue :
       /\ queue[m].event = "product-rating:added"
       /\ Persisted(queue[m].payload.rating)
       /\ \E c \in Calls : \E j \in Succeeded(c, FnFindRating) :
            trace[c][j].ret = queue[m].payload.rating

C1_Witness ==
  \E c \in Calls : /\ Succeeded(c, FnPublish) # {}
                   /\ queue # <<>>

\* C2: when validation fails, addRating rejects with the validation error
\* and calls neither create, findById nor the queue; every row and every
\* message is accounted for by a call whose validation succeeded.
C2_ValidationFailureNoSideEffects ==
  /\ \A c \in Calls :
       (op[c] = "addRating" /\ Failed(c, FnValidate) # {}) =>
         /\ Len(trace[c]) = 1
         /\ outcome[c] = Rejected(trace[c][1].ret)
         /\ outcome[c].error.name = "ValidationError"
         /\ outcome[c].error.badRequest
  /\ Len(ratingsDb) = Len(SeedRatings) + TotalCreated
  /\ Len(queue) = TotalPublished

C2_Witness ==
  \E c, d \in Calls :
    /\ op[c] = "addRating" /\ Failed(c, FnValidate) # {} /\ pc[c] = "done"
    /\ op[d] = "addRating" /\ outcome[d].state = "resolved"

\* C3: a resolved addRating called create once, findById once with the id
\* create returned, and the queue once with 'product-rating:added' and
\* {rating: hydrated, product_id: productId}, in the order validate, create,
\* findById, publish, and resolved with the hydrated rating.
C3_AddRatingSuccess ==
  \A c \in Calls :
    (op[c] = "addRating" /\ outcome[c].state = "resolved") =>
      /\ Len(trace[c]) = 4
      /\ \A i \in 1..4 : trace[c][i].ok
      /\ trace[c][1].fn = FnValidate
      /\ trace[c][2].fn = FnCreate
      /\ trace[c][2].arg = args[c]
      /\ trace[c][3].fn = FnFindRating
      /\ trace[c][3].arg = trace[c][2].ret
      /\ trace[c][4].fn = FnPublish
      /\ trace[c][4].arg = [event |-> "product-rating:added",
                            payload |-> [rating |-> trace[c][3].ret,
                                         product_id |-> args[c][1]]]
      /\ outcome[c].value = trace[c][3].ret

C3_Witness ==
  \E c \in Calls :
    /\ op[c] = "addRating" /\ outcome[c].state = "resolved"
    /\ outcome[c].value.id = Len(SeedRatings) + 1

\* C4: when create fails, the queue is never called in that run and
\* addRating rejects with the error of create.
C4_CreateFailureNoPublish ==
  \A c \in Calls : \A i \in Failed(c, FnCreate) :
    /\ CallsOf(c, FnPublish) = {}
    /\ i = Len(trace[c])
    /\ pc[c] = "done"
    /\ outcome[c] = Rejected(trace[c][i].ret)

C4_Witness ==
  \E c \in Calls : Failed(c, FnCreate) # {} /\ outcome[c].state = "rejected"

\* C5: when the publication fails after create and re-fetch succeeded,
\* addRating rejects with the publication error, the created rating is
\* still persisted, and nothing is called after the failed publish.
C5_PublishFailureNoCompensation ==
  \A c \in Calls : \A k \in Failed(c, FnPublish) :
    /\ outcome[c] = Rejected(trace[c][k].ret)
    /\ outcome[c].error.name = "PublicationError"
    /\ k = Len(trace[c])
    /\ Cardinality(CallsOf(c, FnPublish)) = 1
    /\ createdRatingId[c] \in DOMAIN ratingsDb
    /\ ratingsDb[createdRatingId[c]] = createdRating[c]
    /\ createdRating[c].id = createdRatingId[c]
    /\ createdRating[c].product_id = args[c][1]

C5_Witness ==
  \E c \in Calls : /\ Failed(c, FnPublish) # {}
                   /\ Succeeded(c, FnCreate) # {}
                   /\ Succeeded(c, FnFindRating) # {}
                   /\ pc[c] = "done"

\* C6: when the product fetch of findById fails, getAllByProductId is never
\* called and the call rejects with the error of the fetch, which is
\* NotFoundError when the product does not exist.
C6_ProductFetchFailureShortCircuits ==
  \A c \in Calls : \A i \in Failed(c, FnFindProduct) :
    /\ CallsOf(c, FnGetRatings) = {}
    /\ Len(trace[c]) = 1
    /\ outcome[c] = Rejected(trace[c][i].ret)
    /\ (\A p \in DOMAIN Products : Products[p].id # args[c][1]) =>
         outcome[c].error.name = "NotFoundError"

C6_Witness ==
  \E c \in Calls : /\ op[c] = "findById" /\ args[c] = <<3>>
                   /\ outcome[c].state = "rejected"
                   /\ outcome[c].error.name = "NotFoundError"

\* C7: a resolved findById fetched the product once, then the ratings once,
\* both for the id of the call, and resolved with that product carrying
\* exactly the sequence the ratings lookup returned.
C7_ProductWithRatings ==
  \A c \in Calls :
    (op[c] = "findById" /\ outcome[c].state = "resolved") =>
      /\ Len(trace[c]) = 2
      /\ trace[c][1].fn = FnFindProduct /\ trace[c][1].ok
      /\ trace[c][1].arg = args[c][1]
      /\ trace[c][2].fn = FnGetRatings /\ trace[c][2].ok
      /\ trace[c][2].arg = args[c][1]
      /\ outcome[c].value.ratings = trace[c][2].ret
      /\ outcome[c].value.id = args[c][1]
      /\ outcome[c].value.name = trace[c][1].ret.name

C7_Witness ==
  \E c \in Calls :
    /\ op[c] = "findById" /\ outcome[c].state = "resolved"
    /\ Len(outcome[c].value.ratings) = 3
    /\ outcome[c].value.ratings[3].id = 3

\* The fields of the request the claim names as violating the schema.
Missing(data) == {k \in DOMAIN data : data[k] = Undefined}
RatingOutOfRange(data) ==
  /\ data.rating.t = "number"
  /\ data.rating.n < RatingMin \/ data.rating.n > RatingMax
Violated(data) ==
  Missing(data) \cup (IF RatingOutOfRange(data) THEN {"rating"} ELSE {})

ListedFields(p) == {p.error.details[i].path : i \in DOMAIN p.error.details}

\* C8: for a request with a missing field or a rating out of range,
\* validateAddReviewRequest rejects with an error tagged badRequest that
\* lists every violated field, one entry per field.
C8_ValidationCollectsAll ==
  (vresult.state # "pending" /\ Violated(vdata) # {}) =>
    /\ vresult.state = "rejected"
    /\ vresult.error.badRequest
    /\ Violated(vdata) \subseteq ListedFields(vresult)
    /\ Cardinality(ListedFields(vresult)) = Len(vresult.error.details)
    /\ \A k \in ListedFields(vresult) : KeyViolation(k, vdata[k]) # ""

C8_Witness ==
  /\ vresult.state = "rejected"
  /\ vdata.product_id = Undefined
  /\ vdata.rating = Num(6)
  /\ vdata.review = Undefined
  /\ Len(vresult.error.details) = 3

\* C9: when the re-fetch fails after create succeeded, the queue is never
\* called, addRating rejects with the error of the re-fetch, and the created
\* rating stays persisted with no event published for it.
C9_RefetchFailureLeavesRating ==
  \A c \in Calls : \A j \in Failed(c, FnFindRating) :
    /\ CallsOf(c, FnPublish) = {}
    /\ j = Len(trace[c])
    /\ outcome[c] = Rejected(trace[c][j].ret)
    /\ Succeeded(c, FnCreate) # {}
    /\ createdRatingId[c] \in DOMAIN ratingsDb
    /\ ratingsDb[createdRatingId[c]] =
         [id |-> createdRatingId[c], product_id |-> args[c][1],
          rating |-> args[c][2], review |-> args[c][3]]
    /\ \A m \in DOMAIN queue : queue[m].payload.rating.id # createdRatingId[c]

C9_Witness ==
  \E c \in Calls :
    /\ Failed(c, FnFindRating) # {}
    /\ outcome[c].state = "rejected"
    /\ createdRatingId[c] \in DOMAIN ratingsDb
    /\ \A m \in DOMAIN queue : queue[m].payload.rating.id # createdRatingId[c]

\* C10: under any interleaving of addRating calls, each call re-fetches the
\* id its own create returned and publishes its own hydrated rating with its
\* own productId; no two calls hold the same created id; the events
\* published never outnumber the ratings created.
C10_CallsAreIsolated ==
  /\ \A c \in Calls : \A j \in CallsOf(c, FnFindRating) :
       /\ Succeeded(c, FnCreate) # {}
       /\ \A i \in Succeeded(c, FnCreate) : trace[c][j].arg = trace[c][i].ret
       /\ trace[c][j].arg = createdRatingId[c]
  /\ \A c \in Calls : \A k \in CallsOf(c, FnPublish) :
       /\ trace[c][k].arg.payload.rating.id = createdRatingId[c]
       /\ trace[c][k].arg.payload.rating.product_id = args[c][1]
       /\ trace[c][k].arg.payload.rating.rating = args[c][2]
       /\ trace[c][k].arg.payload.rating.review = args[c][3]
       /\ trace[c][k].arg.payload.product_id = args[c][1]
  /\ \A c, d \in Calls :
       (c # d /\ createdRatingId[c] # 0) => createdRatingId[c] # createdRatingId[d]
  /\ Len(queue) <= TotalCreated

\* Two calls interleaved: the call that created first published last.
C10_Witness ==
  \E c, d \in Calls :
    /\ c # d
    /\ outcome[c].state = "resolved" /\ op[c] = "addRating"
    /\ outcome[d].state = "resolved" /\ op[d] = "addRating"
    /\ createdRatingId[c] < createdRatingId[d]
    /\ Len(queue) = 2
    /\ queue[1].payload.rating.id = createdRatingId[d]
    /\ queue[2].payload.rating.id = createdRatingId[c]
    /\ queue[1].payload.product_id = args[d][1]
    /\ args[c][1] # args[d][1]

====
